---------------------------- MODULE Spec2Model ----------------------------
(***************************************************************************)
(* A model of src/app.py, the player evaluation dashboard.                 *)
(*                                                                         *)
(* The script is re-executed from top to bottom on every user interaction. *)
(* The state is the content of the two parquet files, the value of every   *)
(* widget, and everything one execution of the script computes and shows.  *)
(* Each action is one interaction: it changes one widget and then runs the *)
(* whole script (ScriptRun).  An exception raised by a statement ends the  *)
(* run at that statement: what follows it is not rendered.                 *)
(*                                                                         *)
(* Text (names, teams, seasons) is a sequence of characters, compared as   *)
(* Python compares str values: by code point, lexicographically.  Missing  *)
(* values are NaN (numbers) and NaNText (text).  Decimal values are held   *)
(* in thousandths.                                                         *)
(***************************************************************************)
EXTENDS Integers, Sequences, FiniteSets, TLC

VARIABLES
    raw_df,               \* rows of data/summary_stats.parquet
    raw_players,          \* rows of data/players_stats.parquet
    df_has_impact90,      \* the summary file has an impact90 column
    players_has_impact90, \* the match file has an impact90 column
    df,                   \* the summary dataset after load and normalization
    players_enriched,     \* the match dataset after load and normalization
    selected_years,       \* season multiselect
    available_teams,      \* options of the team multiselect, as last rendered
    selected_teams,       \* team multiselect
    name_search,          \* text input
    position_filter,      \* position selectbox
    min_minutes,          \* minimum minutes slider
    filtered_df,
    filtered_players,
    selected_cols,        \* column multiselect of the summary table
    summary_table,        \* rows shown by the summary table
    min_minutes_scatter,  \* scatter slider
    selected_metric,      \* impact metric selectbox
    impact_summary,       \* the scatter set
    player_names,         \* options of the player selectbox, as last rendered
    player_index,         \* index chosen in the player selectbox
    profile,              \* what the profile tab shows
    compare_options,      \* options of the compare multiselect, as last rendered
    players,              \* compare multiselect
    selected_cols_pc,     \* column multiselect of the comparison table
    compare_table,        \* rows shown by the comparison table
    error                 \* the exception that ended the run, or NoError

vars == <<raw_df, raw_players, df_has_impact90, players_has_impact90, df,
          players_enriched, selected_years, available_teams, selected_teams,
          name_search, position_filter, min_minutes, filtered_df,
          filtered_players, selected_cols, summary_table, min_minutes_scatter,
          selected_metric, impact_summary, player_names, player_index, profile,
          compare_options, players, selected_cols_pc, compare_table, error>>

---------------------------------------------------------------------------
(* Values *)

\* A missing number (pandas NaN).
NaN == -99999

\* A missing text value (pandas NaN in an object column).
NaNText == <<"NaN">>

\* pd.isna on a number, and on a text value.
isna(x) == x = NaN

isnatext(x) == x = NaNText

\* Code points of the characters the model's texts use (Python's ord).
ord ==
    (" " :> 32) @@ ("." :> 46) @@
    ("0" :> 48) @@ ("1" :> 49) @@ ("2" :> 50) @@ ("3" :> 51) @@ ("4" :> 52) @@
    ("5" :> 53) @@ ("6" :> 54) @@ ("7" :> 55) @@ ("8" :> 56) @@ ("9" :> 57) @@
    ("A" :> 65) @@ ("B" :> 66) @@ ("I" :> 73) @@ ("K" :> 75) @@ ("P" :> 80) @@
    ("a" :> 97) @@ ("b" :> 98) @@ ("c" :> 99) @@ ("d" :> 100) @@ ("e" :> 101) @@
    ("f" :> 102) @@ ("g" :> 103) @@ ("h" :> 104) @@ ("i" :> 105) @@
    ("k" :> 107) @@ ("p" :> 112) @@ ("r" :> 114)

chr(n) == CHOOSE c \in DOMAIN ord : ord[c] = n

\* str < str in Python: the first differing code point decides, a proper
\* prefix is smaller.
RECURSIVE StrLt(_, _)
StrLt(s, t) ==
    IF t = <<>> THEN FALSE
    ELSE IF s = <<>> THEN TRUE
    ELSE IF ord[Head(s)] # ord[Head(t)] THEN ord[Head(s)] < ord[Head(t)]
    ELSE StrLt(Tail(s), Tail(t))

\* Decimal digits of a natural number, as str(int) writes them.
RECURSIVE Digits(_)
Digits(n) ==
    IF n < 10 THEN <<chr(48 + n)>>
    ELSE Append(Digits(n \div 10), chr(48 + (n % 10)))

\* sorted(S) for a set S of str values.
RECURSIVE SortedText(_)
SortedText(S) ==
    IF S = {} THEN <<>>
    ELSE LET m == CHOOSE x \in S : \A y \in S : y = x \/ StrLt(x, y)
         IN <<m>> \o SortedText(S \ {m})

Reverse(s) == [i \in 1..Len(s) |-> s[Len(s) + 1 - i]]

Range(s) == {s[i] : i \in 1..Len(s)}

RECURSIVE SumSeq(_)
SumSeq(s) == IF s = <<>> THEN 0 ELSE Head(s) + SumSeq(Tail(s))

Max(S) == CHOOSE x \in S : \A y \in S : y <= x

\* The numbers of a set in ascending order.
RECURSIVE SortedIdx(_)
SortedIdx(S) ==
    IF S = {} THEN <<>>
    ELSE LET m == CHOOSE x \in S : \A y \in S : x <= y
         IN <<m>> \o SortedIdx(S \ {m})

---------------------------------------------------------------------------
(* Loading and normalization: lines 22-49 *)

\* Series.astype(str) on the year column: each number becomes its decimal text.
astype_str(y) == Digits(y)

load_summary(raw) == [i \in 1..Len(raw) |-> [raw[i] EXCEPT !.year = astype_str(@)]]

load_players(raw) == [i \in 1..Len(raw) |-> [raw[i] EXCEPT !.year = astype_str(@)]]

\* Mutant: the assignment made whether or not the column exists.
normalize_summary_always(d, has_impact90) ==
    [i \in 1..Len(d) |-> [d[i] EXCEPT !.impact90 = d[i].pm90]]

\* if 'impact90' not in df.columns: df['impact90'] = df['pm90']
normalize_summary(d, has_impact90) ==
    IF ~has_impact90
    THEN [i \in 1..Len(d) |-> [d[i] EXCEPT !.impact90 = d[i].pm90]]
    ELSE d

\* if 'impact90' not in players_enriched.columns: ... = players_enriched['plus_minus_per90']
normalize_players(d, has_impact90) ==
    IF ~has_impact90
    THEN [i \in 1..Len(d) |-> [d[i] EXCEPT !.impact90 = d[i].plus_minus_per90]]
    ELSE d

---------------------------------------------------------------------------
(* Sidebar: lines 55-107 *)

\* sorted(df["year"].dropna().unique().tolist(), reverse=True)
available_years_of(d) ==
    Reverse(SortedText({d[i].year : i \in 1..Len(d)} \ {NaNText}))

\* default=[available_years[0]] if available_years else []
default_years(years) == IF years # <<>> THEN {years[1]} ELSE {}

\* The team options: the teams of the selected seasons, or of all seasons
\* when no season is selected, sorted.
available_teams_of(d, years) ==
    IF years # {}
    THEN SortedText({d[i].team : i \in {j \in 1..Len(d) : d[j].year \in years}}
                    \ {NaNText})
    ELSE SortedText({d[i].team : i \in 1..Len(d)} \ {NaNText})

IKBrage == <<"I", "K", " ", "B", "r", "a", "g", "e">>

\* Mutant: the first option, whether or not IK Brage is among them.
default_teams_first(teams) == IF teams # <<>> THEN {teams[1]} ELSE {}

\* default=["IK Brage"] if "IK Brage" in available_teams
\*         else ([available_teams[0]] if available_teams else [])
default_teams(teams) ==
    IF IKBrage \in Range(teams) THEN {IKBrage}
    ELSE IF teams # <<>> THEN {teams[1]}
    ELSE {}

\* ["All"] + sorted(df["position"].dropna().unique().tolist())
positions_of(d) == {"All"} \cup {d[i].position : i \in 1..Len(d)}

defined_minuter(d) == {d[i].minuter : i \in 1..Len(d)} \ {NaN}

\* int(df["minuter"].max()) raises ValueError when no minuter is defined.
slider_raises(d) == defined_minuter(d) = {}

SliderStep == 100

\* The values the minimum-minutes slider offers.
slider_values(d) ==
    {k * SliderStep : k \in 0..(Max(defined_minuter(d)) \div SliderStep)}

---------------------------------------------------------------------------
(* Filters: lines 113-135 *)

\* re.IGNORECASE on one character.
fold(c) == IF ord[c] \in 65..90 THEN chr(ord[c] + 32) ELSE c

\* One pattern character against one subject character: "." matches any
\* character, every other character of the model's alphabet is a literal.
re_char(p, c) == p = "." \/ fold(p) = fold(c)

\* Series.str.contains(pat, case=False, na=False): re.search(pat, name,
\* re.IGNORECASE), False for a missing name.
str_contains(name, pat) ==
    /\ ~isnatext(name)
    /\ \E i \in 0..(Len(name) - Len(pat)) :
          \A j \in 1..Len(pat) : re_char(pat[j], name[i + j])

\* filtered_df[filtered_df["minuter"] >= min_minutes]: NaN >= x is False.
ge(x, y) == ~isna(x) /\ x >= y

keep_summary(r, years, teams, search, pos, minm) ==
    /\ years # {} => r.year \in years
    /\ teams # {} => r.team \in teams
    /\ search # <<>> => str_contains(r.name, search)
    /\ pos # "All" => r.position = pos
    /\ ge(r.minuter, minm)

filter_summary(d, years, teams, search, pos, minm) ==
    SelectSeq(d, LAMBDA r : keep_summary(r, years, teams, search, pos, minm))

\* Mutant: the match dataset filtered by season only.
keep_match_year_only(r, years, teams) == years # {} => r.year \in years

keep_match(r, years, teams) ==
    /\ years # {} => r.year \in years
    /\ teams # {} => r.team \in teams

filter_players(d, years, teams) ==
    SelectSeq(d, LAMBDA r : keep_match(r, years, teams))

---------------------------------------------------------------------------
(* Summary tab: lines 138-237 *)

\* The columns of the summary dataset the model carries.
summary_columns ==
    {"name", "team", "position", "year", "alder", "market_value", "minuter",
     "matcher", "usage_rate", "starter_rate", "impact90", "pm90",
     "on_off_total"}

default_cols ==
    {"name", "team", "position", "year", "minuter", "matcher", "usage_rate",
     "starter_rate", "impact_combo90", "pm90", "gf90", "ga90"}

\* [c for c in default_cols if c in filtered_df.columns]
available_cols == default_cols \cap summary_columns

\* filtered_df[selected_cols]: every row restricted to the chosen columns.
project(d, cols) == [i \in 1..Len(d) |-> [c \in cols |-> d[i][c]]]

\* Row a is shown before row b: by usage_rate descending, a missing
\* usage_rate after every defined one.
usage_before(a, b) ==
    /\ ~isna(a.usage_rate)
    /\ isna(b.usage_rate) \/ a.usage_rate > b.usage_rate

\* DataFrame.sort_values(by="usage_rate", ascending=False, na_position="last"),
\* rows with equal keys kept in their order.
RECURSIVE sort_by_usage(_)
sort_by_usage(d) ==
    IF d = <<>> THEN <<>>
    ELSE LET first == CHOOSE i \in 1..Len(d) :
                          /\ \A j \in 1..Len(d) : ~usage_before(d[j], d[i])
                          /\ \A j \in 1..(i - 1) : usage_before(d[i], d[j])
             rest  == [j \in 1..(Len(d) - 1) |-> IF j < first THEN d[j] ELSE d[j + 1]]
         IN <<d[first]>> \o sort_by_usage(rest)

\* filtered_df[selected_cols].sort_values(by="usage_rate", ...) raises KeyError
\* when usage_rate is not among the selected columns.
table_raises(cols) == "usage_rate" \notin cols

table_of(d, cols) == sort_by_usage(project(d, cols))

metric_options ==
    [impact_combo90 |-> "impact_combo90", impact90 |-> "impact90",
     plus_minus_per90 |-> "plus_minus_per90", on_off_diff |-> "on_off_diff"]

metric_keys == DOMAIN metric_options

\* A statistic that may be undefined; a defined one is the fraction num / den.
Undefined == [defined |-> FALSE, num |-> 0, den |-> 1]

Fraction(n, d) == [defined |-> TRUE, num |-> n, den |-> d]

\* The values of one metric in the rows of one player that carry a value.
metric_values(d, name, metric) ==
    LET rows == SelectSeq(d, LAMBDA r : r.name = name /\ ~isna(r[metric]))
    IN [i \in 1..Len(rows) |-> rows[i][metric]]

\* Series.mean(): undefined for no value.
mean_of(xs) ==
    IF Len(xs) = 0 THEN Undefined ELSE Fraction(SumSeq(xs), Len(xs))

\* Series.std() (ddof = 1), held as the variance: undefined for fewer than
\* two values.
std_of(xs) ==
    IF Len(xs) < 2 THEN Undefined
    ELSE LET n  == Len(xs)
             sq == SumSeq([i \in 1..n |-> xs[i] * xs[i]])
             su == SumSeq(xs)
         IN Fraction(n * sq - su * su, n * (n - 1))

\* Series.sum() of minutes_played: missing values count as 0.
minutes_sum(d, name) ==
    LET rows == SelectSeq(d, LAMBDA r : r.name = name /\ ~isna(r.minutes_played))
    IN SumSeq([i \in 1..Len(rows) |-> rows[i].minutes_played])

\* filtered_players.groupby("name").agg(...): one row per name, a missing
\* name forms no group.
aggregate(d, metric) ==
    {[name          |-> n,
      impact_mean   |-> mean_of(metric_values(d, n, metric)),
      impact_std    |-> std_of(metric_values(d, n, metric)),
      matches_used  |-> Len(metric_values(d, n, metric)),
      minutes_total |-> minutes_sum(d, n)]
     : n \in {d[i].name : i \in 1..Len(d)} \ {NaNText}}

\* impact_summary[(minutes_total >= min_minutes_scatter) & (~impact_mean.isna())]
scatter_keep(g, threshold) ==
    /\ g.minutes_total >= threshold
    /\ g.impact_mean.defined

impact_summary_of(d, metric, threshold) ==
    {g \in aggregate(d, metric) : scatter_keep(g, threshold)}

ScatterStep == 50

ScatterMax == 1500

ScatterDefault == 300

---------------------------------------------------------------------------
(* Profile tab: lines 239-453 *)

\* filtered_df["name"].sort_values().tolist(): ascending, missing names last,
\* one entry per row.
RECURSIVE sort_names(_)
sort_names(ns) ==
    IF ns = <<>> THEN <<>>
    ELSE LET before(a, b) == ~isnatext(a) /\ (isnatext(b) \/ StrLt(a, b))
             first == CHOOSE i \in 1..Len(ns) :
                          /\ \A j \in 1..Len(ns) : ~before(ns[j], ns[i])
                          /\ \A j \in 1..(i - 1) : before(ns[i], ns[j])
             rest  == [j \in 1..(Len(ns) - 1) |-> IF j < first THEN ns[j] ELSE ns[j + 1]]
         IN <<ns[first]>> \o sort_names(rest)

player_names_of(d) == sort_names([i \in 1..Len(d) |-> d[i].name])

\* st.selectbox(..., index=6)
DefaultPlayerIndex == 6

\* The selectbox raises StreamlitAPIException for an index outside the options.
selectbox_raises(options, index) == index >= Len(options)

\* filtered_df[filtered_df["name"] == selected_player]: NaN equals nothing.
rows_named(d, name) == SelectSeq(d, LAMBDA r : ~isnatext(name) /\ r.name = name)

\* .iloc[0] raises IndexError on no row.
player_row_raises(d, name) == rows_named(d, name) = <<>>

player_row_of(d, name) == rows_named(d, name)[1]

\* Series.get(key, default)
get(row, key, default) == IF key \in DOMAIN row THEN row[key] ELSE default

Card(label, kind, value) == [label |-> label, kind |-> kind, value |-> value]

\* int(x) raises ValueError on NaN. The model's values of the columns int()
\* is applied to are whole numbers, which int() leaves as they are.
int_raises(x) == isna(x)

\* round(x, 2) of a value held in thousandths, in hundredths; round(nan, 2)
\* is nan.
round2(x) ==
    IF isna(x) THEN NaN
    ELSE LET q == x \div 10
             r == x % 10
         IN IF r < 5 THEN q
            ELSE IF r > 5 THEN q + 1
            ELSE IF q % 2 = 0 THEN q ELSE q + 1

text_card(label, v) == Card(label, "text", v)

\* "–" if pd.isna(v) else f"{int(v)}"
dash_or_int_card(label, v) ==
    IF isna(v) THEN Card(label, "dash", 0) ELSE Card(label, "int", v)

\* int(v); raises where the card list is cut (cards_raise).
int_card(label, v) == Card(label, IF int_raises(v) THEN "raise" ELSE "int", v)

\* round(player_row.get(key, 0), 2)
round_card(label, row, key) ==
    LET v == round2(get(row, key, 0))
    IN IF isna(v) THEN Card(label, "nan", 0) ELSE Card(label, "float", v)

\* The metric cards in the order the script creates them.
card_list(row) ==
    << text_card("Team", get(row, "team", NaNText)),
       text_card("Position", get(row, "position", "")),
       dash_or_int_card("Year", get(row, "alder", NaN)),
       int_card("Minutes", get(row, "minuter", NaN)),
       dash_or_int_card("Market value", get(row, "market_value", NaN)),
       int_card("Matches", get(row, "matcher", NaN)),
       round_card("Usage rate", row, "usage_rate"),
       round_card("Starter rate", row, "starter_rate"),
       round_card("Impact / 90", row, "impact90"),
       round_card("Plus-minus / 90", row, "pm90"),
       round_card("On-Off diff", row, "on_off_total") >>

cards_raise(row) == \E i \in 1..Len(card_list(row)) : card_list(row)[i].kind = "raise"

\* The cards shown: all of them, or those before the first int() that raises.
cards_of(row) ==
    LET cs == card_list(row)
        n  == IF cards_raise(row)
              THEN (CHOOSE i \in 1..Len(cs) :
                       /\ cs[i].kind = "raise"
                       /\ \A j \in 1..(i - 1) : cs[j].kind # "raise") - 1
              ELSE Len(cs)
    IN SubSeq(cs, 1, n)

\* m.sort_values("match_start_datetime"), rows with equal keys in their order.
RECURSIVE sort_by_datetime(_)
sort_by_datetime(d) ==
    IF d = <<>> THEN <<>>
    ELSE LET first == CHOOSE i \in 1..Len(d) :
                          /\ \A j \in 1..Len(d) :
                                d[j].match_start_datetime >= d[i].match_start_datetime
                          /\ \A j \in 1..(i - 1) :
                                d[j].match_start_datetime > d[i].match_start_datetime
             rest  == [j \in 1..(Len(d) - 1) |-> IF j < first THEN d[j] ELSE d[j + 1]]
         IN <<d[first]>> \o sort_by_datetime(rest)

\* filtered_players[filtered_players["name"] == player_name], chronological.
match_rows_of(d, name) ==
    sort_by_datetime(SelectSeq(d, LAMBDA r : ~isnatext(name) /\ r.name = name))

\* What each of the four per-match sections shows under its subheader:
\* a chart, the st.info placeholder, or nothing.
usage_chart(m) == IF Len(m) > 0 THEN "chart" ELSE "info"

impact_chart(m) == IF Len(m) > 0 THEN "chart" ELSE "info"

offensive_chart(m) == IF Len(m) > 0 THEN "chart" ELSE "none"

defensive_chart(m) == IF Len(m) > 0 THEN "chart" ELSE "none"

charts_of(m) ==
    [usage |-> usage_chart(m), impact |-> impact_chart(m),
     offensive |-> offensive_chart(m), defensive |-> defensive_chart(m)]

NoCharts == [usage |-> "none", impact |-> "none", offensive |-> "none", defensive |-> "none"]

Profile(status, player, cards, charts, rows) ==
    [status |-> status, selected_player |-> player, cards |-> cards,
     charts |-> charts, match_rows |-> rows]

ProfileNotRendered == Profile("not_rendered", NaNText, <<>>, NoCharts, <<>>)

---------------------------------------------------------------------------
(* Compare tab: lines 455-578 *)

\* filtered_df["name"].unique()
compare_options_of(d) == {d[i].name : i \in 1..Len(d)}

default_compare_names ==
    { <<"A","l","e","x","a","n","d","e","r"," ","Z","e","t","t","e","r","s","t","r","ö","m">>,
      <<"A","m","a","r"," ","M","u","h","s","i","n">>,
      <<"G","u","s","t","a","v"," ","N","o","r","d","h">> }

\* default=[the three names] if all of them are in filtered_df["name"] else []
default_players(d) ==
    IF default_compare_names \subseteq compare_options_of(d)
    THEN default_compare_names ELSE {}

CompareWarnAbove == 5

default_cols_pc ==
    {"name", "team", "position", "year", "minuter", "matcher", "usage_rate",
     "starter_rate", "impact90", "pm90", "gf90", "ga90"}

available_cols_pc == default_cols_pc \cap summary_columns

\* filtered_df[filtered_df["name"].isin(players)]
cmp_of(d, chosen) == SelectSeq(d, LAMBDA r : r.name \in chosen)

Compare(status, warning, rows) ==
    [status |-> status, warning |-> warning, rows |-> rows]

CompareNotRendered == Compare("not_rendered", FALSE, <<>>)

---------------------------------------------------------------------------
(* One execution of the script: lines 40-578 *)

NoError == [at |-> "none", exc |-> "none"]

Raised(at, exc) == [at |-> at, exc |-> exc]

\* The widget values the session holds when a run starts.
Widgets ==
    [years |-> selected_years, team_options |-> available_teams,
     teams |-> selected_teams, search |-> name_search, pos |-> position_filter,
     minm |-> min_minutes, cols |-> selected_cols, thr |-> min_minutes_scatter,
     metric |-> selected_metric, pnames |-> player_names, pidx |-> player_index,
     copts |-> compare_options, cplayers |-> players, cols_pc |-> selected_cols_pc]

\* The script runs statement by statement; each part below takes the values
\* computed so far (s) and adds its own.  A widget whose options differ from
\* those it was last rendered with is a new widget and takes its default; a
\* widget the run does not reach keeps its value.  A part that follows an
\* exception is not executed.

\* Lines 40-49: the two files (rs, rp: their rows; hs, hp: whether they have
\* an impact90 column) are loaded and normalized; w holds the widget values.
run_load(rs, rp, hs, hp, w) ==
    [w                |-> w,
     df               |-> normalize_summary(load_summary(rs), hs),
     players_enriched |-> normalize_players(load_players(rp), hp),
     error            |-> NoError]

\* Lines 55-107: the sidebar.
run_sidebar(s) ==
    LET t_opts == available_teams_of(s.df, s.w.years)
    IN [available_teams |-> t_opts,
        selected_teams  |-> IF t_opts = s.w.team_options THEN s.w.teams
                            ELSE default_teams(t_opts),
        error           |-> IF slider_raises(s.df)
                            THEN Raised("sidebar", "ValueError") ELSE NoError]
       @@ s

\* Lines 113-135: the filters.
run_filters(s) ==
    IF s.error # NoError
    THEN [filtered_df |-> <<>>, filtered_players |-> <<>>] @@ s
    ELSE [filtered_df      |-> filter_summary(s.df, s.w.years, s.selected_teams,
                                              s.w.search, s.w.pos, s.w.minm),
          filtered_players |-> filter_players(s.players_enriched, s.w.years,
                                              s.selected_teams)] @@ s

\* Lines 138-237: the summary tab.
run_overview(s) ==
    IF s.error # NoError
    THEN [summary_table |-> <<>>, impact_summary |-> {}] @@ s
    ELSE IF table_raises(s.w.cols)
    THEN [summary_table |-> <<>>, impact_summary |-> {},
          error |-> Raised("summary_table", "KeyError")] @@ s
    ELSE [summary_table  |-> table_of(s.filtered_df, s.w.cols),
          impact_summary |-> impact_summary_of(s.filtered_players,
                                               metric_options[s.w.metric], s.w.thr)]
         @@ s

\* Lines 247-256: the player selectbox.
run_select(s) ==
    LET names == player_names_of(s.filtered_df)
        index == IF names = s.w.pnames THEN s.w.pidx ELSE DefaultPlayerIndex
    IN IF s.error # NoError
       THEN [player_names |-> s.w.pnames, player_index |-> s.w.pidx,
             profile |-> ProfileNotRendered] @@ s
       ELSE IF names = <<>>
       THEN [player_names |-> names, player_index |-> DefaultPlayerIndex,
             profile |-> Profile("warning", NaNText, <<>>, NoCharts, <<>>)] @@ s
       ELSE IF selectbox_raises(names, index)
       THEN [player_names |-> names, player_index |-> index,
             profile |-> Profile("raised", NaNText, <<>>, NoCharts, <<>>),
             error |-> Raised("profile_select", "StreamlitAPIException")] @@ s
       ELSE [player_names |-> names, player_index |-> index,
             profile |-> Profile("selected", names[index + 1], <<>>, NoCharts, <<>>)]
            @@ s

\* Lines 258-453: the profile of the selected player.
run_profile(s) ==
    LET sel == s.profile.selected_player
    IN IF s.profile.status # "selected" THEN s
       ELSE IF player_row_raises(s.filtered_df, sel)
       THEN [profile |-> Profile("raised", sel, <<>>, NoCharts, <<>>),
             error |-> Raised("profile_row", "IndexError")] @@ s
       ELSE IF cards_raise(player_row_of(s.filtered_df, sel))
       THEN [profile |-> Profile("raised", sel,
                                 cards_of(player_row_of(s.filtered_df, sel)),
                                 NoCharts, <<>>),
             error |-> Raised("profile_cards", "ValueError")] @@ s
       ELSE [profile |-> Profile("rendered", sel,
                                 cards_of(player_row_of(s.filtered_df, sel)),
                                 charts_of(match_rows_of(s.filtered_players, sel)),
                                 match_rows_of(s.filtered_players, sel))] @@ s

\* Lines 455-578: the compare tab.
run_compare(s) ==
    LET options == compare_options_of(s.filtered_df)
        chosen  == IF options = s.w.copts THEN s.w.cplayers
                   ELSE default_players(s.filtered_df)
        warn    == Cardinality(chosen) > CompareWarnAbove
    IN IF s.error # NoError
       THEN [compare_options |-> s.w.copts, players |-> s.w.cplayers,
             compare_table |-> CompareNotRendered] @@ s
       ELSE IF chosen = {}
       THEN [compare_options |-> options, players |-> chosen,
             compare_table |-> Compare("info", warn, <<>>)] @@ s
       ELSE IF table_raises(s.w.cols_pc)
       THEN [compare_options |-> options, players |-> chosen,
             compare_table |-> Compare("raised", warn, <<>>),
             error |-> Raised("compare_table", "KeyError")] @@ s
       ELSE [compare_options |-> options, players |-> chosen,
             compare_table |-> Compare("rendered", warn,
                                       table_of(cmp_of(s.filtered_df, chosen),
                                                s.w.cols_pc))] @@ s

\* The one outcome of a run of the whole script.
ScriptRun(rs, rp, hs, hp, w) ==
    { run_compare(s5) : s5 \in
    { run_profile(s4) : s4 \in
    { run_select(s3) : s3 \in
    { run_overview(s2) : s2 \in
    { run_filters(s1) : s1 \in
    { run_sidebar(s0) : s0 \in
    { run_load(rs, rp, hs, hp, w) } } } } } } }

\* The state after a run.
Shown(r) ==
    /\ df = r.df
    /\ players_enriched = r.players_enriched
    /\ selected_years = r.w.years
    /\ available_teams = r.available_teams
    /\ selected_teams = r.selected_teams
    /\ name_search = r.w.search
    /\ position_filter = r.w.pos
    /\ min_minutes = r.w.minm
    /\ filtered_df = r.filtered_df
    /\ filtered_players = r.filtered_players
    /\ selected_cols = r.w.cols
    /\ summary_table = r.summary_table
    /\ min_minutes_scatter = r.w.thr
    /\ selected_metric = r.w.metric
    /\ impact_summary = r.impact_summary
    /\ player_names = r.player_names
    /\ player_index = r.player_index
    /\ profile = r.profile
    /\ compare_options = r.compare_options
    /\ players = r.players
    /\ selected_cols_pc = r.w.cols_pc
    /\ compare_table = r.compare_table
    /\ error = r.error

\* An interaction: the session's widget values become w and the script runs.
Rerun(w) ==
    \E r \in ScriptRun(raw_df, raw_players, df_has_impact90, players_has_impact90, w) :
       /\ df' = r.df
       /\ players_enriched' = r.players_enriched
       /\ selected_years' = r.w.years
       /\ available_teams' = r.available_teams
       /\ selected_teams' = r.selected_teams
       /\ name_search' = r.w.search
       /\ position_filter' = r.w.pos
       /\ min_minutes' = r.w.minm
       /\ filtered_df' = r.filtered_df
       /\ filtered_players' = r.filtered_players
       /\ selected_cols' = r.w.cols
       /\ summary_table' = r.summary_table
       /\ min_minutes_scatter' = r.w.thr
       /\ selected_metric' = r.w.metric
       /\ impact_summary' = r.impact_summary
       /\ player_names' = r.player_names
       /\ player_index' = r.player_index
       /\ profile' = r.profile
       /\ compare_options' = r.compare_options
       /\ players' = r.players
       /\ selected_cols_pc' = r.w.cols_pc
       /\ compare_table' = r.compare_table
       /\ error' = r.error
       /\ UNCHANGED <<raw_df, raw_players, df_has_impact90, players_has_impact90>>

\* The widget values of a session's first run: every widget at its default.
FirstWidgets(rs) ==
    [years |-> default_years(available_years_of(load_summary(rs))),
     team_options |-> <<NaNText>>, teams |-> {}, search |-> <<>>, pos |-> "All",
     minm |-> 0, cols |-> available_cols, thr |-> ScatterDefault,
     metric |-> "impact_combo90", pnames |-> <<>>, pidx |-> DefaultPlayerIndex,
     copts |-> {}, cplayers |-> {}, cols_pc |-> available_cols_pc]

FirstRun(rs, rp, hs, hp) ==
    /\ raw_df = rs
    /\ raw_players = rp
    /\ df_has_impact90 = hs
    /\ players_has_impact90 = hp
    /\ \E r \in ScriptRun(rs, rp, hs, hp, FirstWidgets(rs)) : Shown(r)

---------------------------------------------------------------------------
(* The files the model is run on *)

\* A row of summary_stats.parquet.
SummaryRow(name, team, position, year, minuter, matcher, usage_rate, impact90, pm90) ==
    [name |-> name, team |-> team, position |-> position, year |-> year,
     alder |-> 24, market_value |-> 150, minuter |-> minuter,
     matcher |-> matcher, usage_rate |-> usage_rate, starter_rate |-> 500,
     impact90 |-> impact90, pm90 |-> pm90, on_off_total |-> 120]

\* A row of players_stats.parquet.
MatchRow(name, team, year, start, minutes, combo, impact90, per90) ==
    [name |-> name, team |-> team, year |-> year, match_start_datetime |-> start,
     minutes_played |-> minutes, impact_combo90 |-> combo, impact90 |-> impact90,
     plus_minus_per90 |-> per90, on_off_diff |-> per90]

AIK == <<"A", "I", "K">>

BP == <<"B", "P">>

\* The rows the summary files of Spec are made of: two seasons, three teams
\* and a row without a team, a name holding a ".", a missing name, a missing
\* minuter, two rows of equal usage_rate.
SummaryUniverse ==
    << SummaryRow(<<"a", "b">>, IKBrage, "Forward", 2024, 200, 20, 900, 512, 300),
       SummaryRow(<<"B", "a">>, AIK, "Back", 2024, 100, 5, 300, -250, -250),
       SummaryRow(<<"a", ".", "b">>, IKBrage, "Forward", 2023, NaN, NaN, NaN, NaN, 100),
       SummaryRow(<<"A", "b">>, BP, "Back", 2023, 200, 12, 900, 40, 0),
       SummaryRow(NaNText, NaNText, "Forward", 2024, 100, 3, NaN, 75, NaN) >>

\* The largest number of rows of a summary file of Spec.
MaxRows == 3

\* The summary files of Spec: the rows of SummaryUniverse at up to MaxRows
\* places, in their order.
SummaryFiles ==
    LET pick(I) == LET idx == SortedIdx(I) IN [k \in 1..Len(idx) |-> SummaryUniverse[idx[k]]]
    IN {pick(I) : I \in {J \in SUBSET (1..Len(SummaryUniverse)) :
                            Cardinality(J) \in 1..MaxRows}}

\* The match files of Spec: rows of both seasons and of a season the summary
\* file does not have, a missing name, missing values.
MatchFiles ==
    { << MatchRow(<<"a", "b">>, IKBrage, 2024, 1, 90, 1000, 700, 500),
         MatchRow(<<"B", "a">>, AIK, 2024, 2, 45, -500, NaN, -200),
         MatchRow(<<"a", "b">>, IKBrage, 2023, 3, 60, 3000, 100, 0) >>,
      << MatchRow(<<"A", "b">>, BP, 2023, 2, 90, NaN, 300, NaN),
         MatchRow(NaNText, AIK, 2024, 1, NaN, 200, 200, 100),
         MatchRow(<<"A", "b">>, BP, 2022, 1, 30, 100, -100, 50) >> }

\* The columns of a roster row that may hold no value.
RosterGaps ==
    {"none", "name", "alder", "market_value", "minuter", "matcher", "usage_rate",
     "starter_rate", "impact90", "pm90", "on_off_total", "all"}

\* The summary files of SpecProfile, SpecScatter and SpecTables: eight players of one team
\* and season, a..h; the row of player g lacks the value of column `gap`
\* ("all": of every numeric column but minuter).
Roster(gap) ==
    LET base(n, minuter, usage) ==
            SummaryRow(<<n>>, IKBrage, IF n \in {"a", "b"} THEN "Back" ELSE "Forward",
                       2024, minuter, 10, usage, 250, 125)
        g0 == base("g", 200, 640)
        numeric == {"alder", "market_value", "matcher", "usage_rate",
                    "starter_rate", "impact90", "pm90", "on_off_total"}
        g  == [c \in DOMAIN g0 |->
                  IF c = gap /\ c = "name" THEN NaNText
                  ELSE IF c = gap \/ (gap = "all" /\ c \in numeric) THEN NaN
                  ELSE g0[c]]
    IN << base("c", 100, 310), base("a", 100, 900), base("h", 200, NaN),
          g, base("b", 100, 450), base("e", 200, 450), base("d", 200, 720),
          base("f", 200, 130) >>

\* The match files of SpecProfile, SpecScatter and SpecTables: player a with the values
\* 1.0, 3.0, 5.0 over 30, 60 and 90 minutes, player h with one match, player
\* b with one match without a value, player g with `n` matches.
RosterMatches(n) ==
    LET row(name, start, minutes, v) ==
            MatchRow(<<name>>, IKBrage, 2024, start, minutes, v, v, v)
    IN << row("a", 3, 90, 5000), row("a", 1, 30, 1000), row("h", 2, 90, 2000),
          row("a", 2, 60, 3000), row("b", 1, 90, NaN) >>
       \o [k \in 1..n |-> row("g", 10 - k, 90, 1000 * k)]

RosterMatchCounts == {0, 1, 3}

---------------------------------------------------------------------------
(* What the user enters *)

\* The texts typed into the search box.
NameSearches == {<<>>, <<".">>, <<"a", "B">>}

\* The column choices made in the two column menus.
ColumnChoices(default) == {default, {"name", "usage_rate"}, {"name"}, {}}

\* The scatter slider is moved to one of its first MaxScatterSteps steps, or
\* back to its default.
MaxScatterSteps == 2

ScatterChoices ==
    {v \in {k * ScatterStep : k \in 0..MaxScatterSteps} : v <= ScatterMax}
    \cup {ScatterDefault}

\* The largest number of players the user picks for comparison.
MaxCompare == 1

---------------------------------------------------------------------------
(* Interactions *)

\* The user sees the widgets the last run reached.
reached_overview == error.at # "sidebar"

reached_scatter == error.at \notin {"sidebar", "summary_table"}

SetYears ==
    \E Y \in SUBSET Range(available_years_of(df)) :
        /\ Y # selected_years
        /\ Rerun([Widgets EXCEPT !.years = Y])

SetTeams ==
    \E T \in SUBSET Range(available_teams) :
        /\ T # selected_teams
        /\ Rerun([Widgets EXCEPT !.teams = T])

SetNameSearch ==
    \E t \in NameSearches :
        /\ t # name_search
        /\ Rerun([Widgets EXCEPT !.search = t])

SetPosition ==
    \E p \in positions_of(df) :
        /\ p # position_filter
        /\ Rerun([Widgets EXCEPT !.pos = p])

SetMinMinutes ==
    /\ ~slider_raises(df)
    /\ \E v \in slider_values(df) :
          /\ v # min_minutes
          /\ Rerun([Widgets EXCEPT !.minm = v])

SetColumns ==
    /\ reached_overview
    /\ \E C \in ColumnChoices(available_cols) :
          /\ C # selected_cols
          /\ Rerun([Widgets EXCEPT !.cols = C])

SetScatterThreshold ==
    /\ reached_scatter
    /\ \E v \in ScatterChoices :
          /\ v # min_minutes_scatter
          /\ Rerun([Widgets EXCEPT !.thr = v])

SetMetric ==
    /\ reached_scatter
    /\ \E k \in metric_keys :
          /\ k # selected_metric
          /\ Rerun([Widgets EXCEPT !.metric = k])

SelectPlayer ==
    /\ profile.status \in {"rendered", "raised"}
    /\ error.at # "profile_select"
    /\ \E i \in 0..(Len(player_names) - 1) :
          /\ i # player_index
          /\ Rerun([Widgets EXCEPT !.pidx = i])

SetComparePlayers ==
    /\ compare_table.status # "not_rendered"
    /\ \E P \in SUBSET (compare_options \ {NaNText}) :
          /\ Cardinality(P) <= MaxCompare
          /\ P # players
          /\ Rerun([Widgets EXCEPT !.cplayers = P])

SetColumnsPc ==
    /\ compare_table.status \in {"rendered", "raised"}
    /\ \E C \in ColumnChoices(available_cols_pc) :
          /\ C # selected_cols_pc
          /\ Rerun([Widgets EXCEPT !.cols_pc = C])

---------------------------------------------------------------------------
(* Specifications *)

\* The sidebar: any file of SummaryFiles and MatchFiles, the user changes the
\* five filters.
Init ==
    \E rs \in SummaryFiles, rp \in MatchFiles, hs \in BOOLEAN, hp \in BOOLEAN :
        FirstRun(rs, rp, hs, hp)

Next ==
    \/ SetYears
    \/ SetTeams
    \/ SetNameSearch
    \/ SetPosition
    \/ SetMinMinutes

Spec == Init /\ [][Next]_vars

\* The rosters, on which the profile tab is reached.
InitRoster ==
    \E gap \in RosterGaps, n \in RosterMatchCounts, hs \in BOOLEAN :
        FirstRun(Roster(gap), RosterMatches(n), hs, hs)

\* The profile tab: the user narrows the roster and picks a player.
NextProfile ==
    \/ SetNameSearch
    \/ SetMinMinutes
    \/ SelectPlayer

SpecProfile == InitRoster /\ [][NextProfile]_vars

\* The scatter of the summary tab: the user moves its threshold and picks the
\* metric.
NextScatter ==
    \/ SetScatterThreshold
    \/ SetMetric

SpecScatter == InitRoster /\ [][NextScatter]_vars

\* The two tables: the user chooses the columns of each and the players to
\* compare.
NextTables ==
    \/ SetColumns
    \/ SetComparePlayers
    \/ SetColumnsPc

SpecTables == InitRoster /\ [][NextTables]_vars

---------------------------------------------------------------------------
(* Properties *)

\* The run reached the filters, the profile tab.
reached_filters == error.at # "sidebar"

reached_profile == error.at \notin {"sidebar", "summary_table"}

\* name contains text, case-insensitively, as plain text.
contains_text(name, text) ==
    /\ ~isnatext(name)
    /\ \E i \in 0..(Len(name) - Len(text)) :
          \A j \in 1..Len(text) : fold(text[j]) = fold(name[i + j])

\* C1: with no season and no team selected, an empty search, position "All"
\* and minimum minutes 0, the filtered summary dataset is the summary dataset
\* and the filtered match dataset is the match dataset, whatever the rows
\* hold.
C1_PassThrough ==
    ( /\ reached_filters
      /\ selected_years = {}
      /\ selected_teams = {}
      /\ name_search = <<>>
      /\ position_filter = "All"
      /\ min_minutes = 0 )
    => /\ filtered_df = df
       /\ filtered_players = players_enriched

\* C2: with a season and a team selection and a position chosen, a summary
\* row is in the filtered summary dataset exactly when its year is selected,
\* its team is selected, its name contains the search text (case-
\* insensitively), its position is the chosen one and its minuter is at
\* least the threshold.
C2_Conjunction ==
    ( /\ reached_filters
      /\ selected_years # {}
      /\ selected_teams # {}
      /\ position_filter # "All" )
    => \A i \in 1..Len(df) :
          df[i] \in Range(filtered_df)
          <=> /\ df[i].year \in selected_years
              /\ df[i].team \in selected_teams
              /\ name_search # <<>> => contains_text(df[i].name, name_search)
              /\ df[i].position = position_filter
              /\ ~isna(df[i].minuter)
              /\ df[i].minuter >= min_minutes

\* C3: the filtered match dataset holds exactly the match rows whose year is
\* selected (or no season is) and whose team is selected (or no team is), in
\* their order, and an interaction that leaves both selections as they are
\* leaves it unchanged.
C3_MatchFilter ==
    /\ [](reached_filters =>
            filtered_players =
                SelectSeq(players_enriched,
                          LAMBDA r : /\ selected_years = {} \/ r.year \in selected_years
                                     /\ selected_teams = {} \/ r.team \in selected_teams))
    /\ [][(selected_years' = selected_years /\ selected_teams' = selected_teams)
            => filtered_players' = filtered_players]_vars

\* Search, position and minimum minutes have emptied the summary dataset and
\* the team selection has narrowed the match dataset, which is not empty.
C3_Witness ==
    /\ reached_filters
    /\ name_search # <<>>
    /\ position_filter # "All"
    /\ min_minutes > 0
    /\ selected_teams # {}
    /\ filtered_df = <<>>
    /\ filtered_players # <<>>
    /\ \E i \in 1..Len(players_enriched) :
          /\ players_enriched[i].year \in selected_years
          /\ players_enriched[i].team \notin selected_teams

\* C4: a dataset loaded without an impact90 column has, on every row,
\* impact90 equal to pm90 (summary) or plus_minus_per90 (match); a dataset
\* loaded with the column keeps the loaded value on every row.
C4_ImpactFallback ==
    /\ Len(df) = Len(raw_df)
    /\ Len(players_enriched) = Len(raw_players)
    /\ \A i \in 1..Len(raw_df) :
          /\ df[i].pm90 = raw_df[i].pm90
          /\ df[i].impact90 = IF df_has_impact90 THEN raw_df[i].impact90
                              ELSE raw_df[i].pm90
    /\ \A i \in 1..Len(raw_players) :
          /\ players_enriched[i].plus_minus_per90 = raw_players[i].plus_minus_per90
          /\ players_enriched[i].impact90 =
                IF players_has_impact90 THEN raw_players[i].impact90
                ELSE raw_players[i].plus_minus_per90

\* A summary file without the column and a match file with it, on both of
\* which impact90 and the plus-minus column differ on some row.
C4_Witness ==
    /\ ~df_has_impact90
    /\ players_has_impact90
    /\ \E i \in 1..Len(raw_df) : raw_df[i].impact90 # raw_df[i].pm90
    /\ \E i \in 1..Len(players_enriched) :
          players_enriched[i].impact90 # players_enriched[i].plus_minus_per90

\* The teams of the summary dataset, and those of the rows of the selected
\* seasons (of all rows when no season is selected).
roster_teams == {df[i].team : i \in 1..Len(df)} \ {NaNText}

season_teams ==
    {df[i].team : i \in {j \in 1..Len(df) :
                            selected_years = {} \/ df[j].year \in selected_years}}
    \ {NaNText}

\* The team that sorts first.
first_team(T) == CHOOSE t \in T : \A u \in T : u = t \/ StrLt(t, u)

\* C5 as stated: the default of the team filter is {"IK Brage"} when the
\* roster has that team among others, the alphabetically first team of the
\* roster when the roster is without it, and empty when the roster has no
\* team, whatever seasons are selected.
C5_DefaultFromRoster ==
    reached_filters =>
        /\ (IKBrage \in roster_teams /\ roster_teams # {IKBrage})
              => default_teams(available_teams) = {IKBrage}
        /\ (IKBrage \notin roster_teams /\ roster_teams # {})
              => default_teams(available_teams) = {first_team(roster_teams)}
        /\ roster_teams = {} => default_teams(available_teams) = {}

\* C5 as amended: the default of the team filter is {"IK Brage"} when that
\* team is among the teams of the selected seasons (of all seasons when none
\* is selected), else the alphabetically first of those teams, else empty.
C5_DefaultFromOptions ==
    reached_filters =>
        default_teams(available_teams) =
            IF IKBrage \in season_teams THEN {IKBrage}
            ELSE IF season_teams # {} THEN {first_team(season_teams)}
            ELSE {}

\* The roster has IK Brage, the selected seasons do not, and the team filter
\* holds its default, another team.
C5_Witness ==
    /\ reached_filters
    /\ IKBrage \in roster_teams
    /\ IKBrage \notin season_teams
    /\ selected_years # {}
    /\ selected_teams # {}
    /\ selected_teams = default_teams(available_teams)

\* The summary row of the selected player.
selected_row == player_row_of(filtered_df, profile.selected_player)

\* The card of one label among the cards shown.
shown_card(label) ==
    {profile.cards[i] : i \in {j \in 1..Len(profile.cards) :
                                  profile.cards[j].label = label}}

\* C6: whichever of age, minutes, market value, matches, usage rate, starter
\* rate, impact90, pm90 and on_off_total the selected player's row lacks, the
\* profile is rendered through to the per-match charts, and the card of a
\* field without a value shows "-" or the default 0.
C6_MissingDataNeverFails ==
    ( /\ reached_profile
      /\ profile.status \in {"rendered", "raised"}
      /\ error.at \notin {"profile_select", "profile_row"} )
    => /\ profile.status = "rendered"
       /\ \A f \in {<<"alder", "Year">>, <<"minuter", "Minutes">>,
                    <<"market_value", "Market value">>, <<"matcher", "Matches">>,
                    <<"usage_rate", "Usage rate">>, <<"starter_rate", "Starter rate">>,
                    <<"impact90", "Impact / 90">>, <<"pm90", "Plus-minus / 90">>,
                    <<"on_off_total", "On-Off diff">>} :
             isna(selected_row[f[1]])
             => /\ shown_card(f[2]) # {}
                /\ \A c \in shown_card(f[2]) :
                      \/ c.kind = "dash"
                      \/ c.kind \in {"int", "float"} /\ c.value = 0

\* C7: every player of the scatter set has total minutes of at least the
\* threshold, a defined mean and a defined standard deviation.
C7_ScatterDefined ==
    reached_scatter =>
        \A g \in impact_summary :
            /\ g.minutes_total >= min_minutes_scatter
            /\ g.impact_mean.defined
            /\ g.impact_std.defined

\* C8: in a rendered profile each of the four per-match sections shows the
\* placeholder when the player has no match row in the filtered match
\* dataset, and its chart when the player has one.
C8_ChartPlaceholders ==
    profile.status = "rendered" =>
        \A k \in DOMAIN profile.charts :
            profile.charts[k] = IF profile.match_rows = <<>> THEN "info" ELSE "chart"

\* C9: whatever columns are chosen, the summary table shows the filtered
\* rows, and the comparison table the rows of the chosen players, by
\* usage_rate descending with the rows without a usage_rate last.
C9_TablesSorted ==
    /\ reached_overview =>
          /\ error.at # "summary_table"
          /\ summary_table = project(sort_by_usage(filtered_df), selected_cols)
    /\ (compare_table.status \notin {"not_rendered", "info"}) =>
          /\ compare_table.status = "rendered"
          /\ compare_table.rows =
                project(sort_by_usage(cmp_of(filtered_df, players)), selected_cols_pc)

\* C10: once the profile tab is reached, an empty filtered roster shows the
\* warning and nothing else; a filtered roster of any size from one name
\* upward has a player selected among its sorted names, whose summary row is
\* found in the filtered summary dataset.
C10_ProfileSelection ==
    reached_profile =>
        IF filtered_df = <<>>
        THEN profile.status = "warning" /\ profile.cards = <<>>
        ELSE /\ error.at \notin {"profile_select", "profile_row"}
             /\ profile.status \in {"rendered", "raised"}
             /\ player_index < Len(player_names)
             /\ profile.selected_player = player_names[player_index + 1]
             /\ player_names = player_names_of(filtered_df)
             /\ \E i \in 1..Len(filtered_df) :
                   filtered_df[i].name = profile.selected_player

============================================================================
